---- MODULE Spec2Model ----
(***************************************************************************)
(* Model of aavehealthfactor.py: a Telegram bot that keeps a dictionary    *)
(* user_data (chat id -> threshold, address), persists it as JSON in       *)
(* USER_DATA_FILE, and sweeps it periodically (periodic_check) to alert    *)
(* subscribers whose AAVE health factor is below their threshold.          *)
(*                                                                         *)
(* Scheduling: all coroutines run on one asyncio event loop.  Updates are  *)
(* handled one at a time (the Application is built without                 *)
(* concurrent_updates), the repeating job runs as its own task with one    *)
(* instance at a time.  A coroutine gives up the loop only at an await of  *)
(* a network call (reply_text, send_message); check_health_factor and      *)
(* save_user_data are synchronous.                                         *)
(***************************************************************************)
EXTENDS Integers, Sequences, FiniteSets, TLC

VARIABLES
    proc,        \* "up" | "down": the bot process
    user_data,   \* the global dict: entry array in insertion order, deleted slots kept
    file,        \* USER_DATA_FILE: [exists, content], content a sequence of JSON tokens
    spc,         \* periodic_check: "idle" | "iter" (holds the loop) | "sending" (awaiting send_message)
    it,          \* the dict iterator of `for chat_id in user_data`
    sev,         \* what the sweep's latest check_and_notify read and decided
    hpc,         \* the update handler in flight: "idle" | "reply" | "notify" | "checked"
    hchat,       \* chat_id of the handler in flight
    hmsg,        \* text the handler in flight replies with
    hev,         \* what /monitor's check_and_notify read and decided
    evaluated,   \* history: chat ids check_and_notify ran for in the running sweep
    snapshot,    \* history: keys of user_data when the running sweep started
    lastRun,     \* history: how the latest run of periodic_check ended, "" while one runs
    notified,    \* history: chat ids a sweep's send_message has delivered a message to
    failedSaves, \* history: save_user_data calls that raised since the last one that returned
    saveLog,     \* history: the mappings before and after the save the process died in
    touched,     \* history: /monitor or /stop changed user_data while the running sweep was under way
    stopped      \* history, per chat: "" | "unsaved" | "saved": /stop removed its subscription
                 \* from user_data, its save_user_data raised or returned, and no /monitor
                 \* has stored one since

vars == <<proc, user_data, file, spc, it, sev, hpc, hchat, hmsg, hev,
          evaluated, snapshot, lastRun, notified, failedSaves, saveLog, touched,
          stopped>>

----------------------------------------------------------------------------
(* Bounds of the model *)

\* update.effective_chat.id of the chats talking to the bot
ChatIds == {1, 2}

\* entry slots of the dict: an insertion that finds them all taken rebuilds
\* the entry array without the deleted slots.  One slot per chat makes both
\* kinds of insertion happen.
MaxEntries == Cardinality(ChatIds)

\* save_user_data calls in a row that may raise OSError
MaxSaveFaults == 1

\* the /monitor requests tried, as <<chat id, context.args>>: chat 1 sends
\* well-formed requests, one with a threshold that is no positive number, and
\* malformed ones; the other chats send one well-formed request
MonitorInputs ==
    {<<1, <<"1.5", "0xA">> >>, <<1, <<"2.0", "0xB">> >>, <<1, <<"-1", "0xA">> >>,
     <<1, <<"abc", "0xA">> >>, <<1, <<"1.5", "xyz">> >>, <<1, <<>> >>, <<1, <<"1.5">> >>}
    \cup {<<c, <<"1.5", "0xA">> >> : c \in ChatIds \ {1}}

----------------------------------------------------------------------------
(* Floats, in tenths, with the IEEE specials Python's float() accepts *)

Fin(n) == [k |-> "fin", v |-> n]
NaN == [k |-> "nan", v |-> 0]
PosInf == [k |-> "inf", v |-> 1]
NegInf == [k |-> "inf", v |-> -1]
ValueError == [k |-> "ValueError", v |-> 0]
None == [k |-> "none", v |-> 0]

\* the literals float() is applied to, and their values
FloatLiterals ==
    [s \in {"1.5", "2.0", "2", "-1", "0", "nan", "inf", "-inf"} |->
        CASE s = "1.5" -> Fin(15)
          [] s = "2.0" -> Fin(20)
          [] s = "2" -> Fin(20)
          [] s = "-1" -> Fin(-10)
          [] s = "0" -> Fin(0)
          [] s = "nan" -> NaN
          [] s = "inf" -> PosInf
          [] s = "-inf" -> NegInf]

\* float(context.args[0])
ParseFloat(s) == IF s \in DOMAIN FloatLiterals THEN FloatLiterals[s] ELSE ValueError

\* health_factor < threshold on Python floats
FloatLt(a, b) ==
    CASE a.k = "nan" \/ b.k = "nan" -> FALSE
      [] a.k = "fin" /\ b.k = "fin" -> a.v < b.v
      [] a.k = "fin" /\ b.k = "inf" -> b.v > 0
      [] a.k = "inf" /\ b.k = "fin" -> a.v < 0
      [] OTHER -> a.v < b.v

\* w3.is_address(address)
IsAddress(a) == a \in {"0xA", "0xB"}

\* what check_health_factor can return: account_data[5] / 1e18, or None
\* when the contract call raised
Readings == {Fin(12), Fin(15), None}

----------------------------------------------------------------------------
(* The dict user_data.  CPython keeps the entries in insertion order in an *)
(* array; del leaves an empty slot behind, and an insertion that finds the *)
(* array full rebuilds it without the empty slots.                         *)

Tomb == [key |-> "", threshold |-> Fin(0), address |-> ""]

Live(d) == {i \in 1..Len(d) : d[i].key # ""}

\* the keys of the dict
Keys(d) == {d[i].key : i \in Live(d)}

\* len(d)
Used(d) == Cardinality(Live(d))

IndexOf(d, key) == CHOOSE i \in Live(d) : d[i].key = key

\* d[key]
GetItem(d, key) == d[IndexOf(d, key)]

IsLive(e) == e.key # ""

Compact(d) == SelectSeq(d, IsLive)

\* d[key] = {'threshold': threshold, 'address': address} for a new key
InsertItem(d, key, threshold, address) ==
    LET e == [key |-> key, threshold |-> threshold, address |-> address]
    IN  IF Len(d) >= MaxEntries THEN Append(Compact(d), e) ELSE Append(d, e)

\* (mutant) the deletion empties the dict
DelItemClears(d, key) == [i \in 1..Len(d) |-> Tomb]

\* del d[key]
DelItem(d, key) == [d EXCEPT ![IndexOf(d, key)] = Tomb]

\* the dict two Python dicts are equal as: keys and values, order aside
AsMapping(d) == {d[i] : i \in Live(d)}

\* str(update.effective_chat.id)
Str(n) == ToString(n)

----------------------------------------------------------------------------
(* JSON text of the file, as a sequence of tokens: "{", one token per      *)
(* "key": {"threshold": t, "address": a} member, "}".                      *)

(* A number is written as the sequence of its characters.                  *)

OpenTok == [key |-> "{", threshold |-> <<>>, address |-> ""]
CloseTok == [key |-> "}", threshold |-> <<>>, address |-> ""]

\* white space, as a text a file may hold
Blank == [key |-> " ", threshold |-> <<>>, address |-> ""]

\* the decimal digits of a natural number
RECURSIVE Digits(_)
Digits(n) == IF n < 10 THEN <<ToString(n)>> ELSE Digits(n \div 10) \o <<ToString(n % 10)>>

\* (mutant) the fraction is not written
FloatReprNoFraction(x) ==
    CASE x.k = "nan" -> <<"NaN">>
      [] x.k = "inf" -> IF x.v > 0 THEN <<"Infinity">> ELSE <<"-", "Infinity">>
      [] OTHER ->
            LET a == IF x.v < 0 THEN 0 - x.v ELSE x.v
            IN  (IF x.v < 0 THEN <<"-">> ELSE <<>>) \o Digits(a \div 10) \o <<".", "0">>

\* float.__repr__ as json.dump writes it (allow_nan is on by default)
FloatRepr(x) ==
    CASE x.k = "nan" -> <<"NaN">>
      [] x.k = "inf" -> IF x.v > 0 THEN <<"Infinity">> ELSE <<"-", "Infinity">>
      [] OTHER ->
            LET a == IF x.v < 0 THEN 0 - x.v ELSE x.v
            IN  (IF x.v < 0 THEN <<"-">> ELSE <<>>) \o Digits(a \div 10) \o <<".">>
                    \o Digits(a % 10)

\* the value of a digit character
DigitValue(ch) == CHOOSE n \in 0..9 : ToString(n) = ch

\* the natural number a sequence of digits denotes
RECURSIVE Number(_)
Number(ds) ==
    IF ds = <<>> THEN 0 ELSE 10 * Number(SubSeq(ds, 1, Len(ds) - 1)) + DigitValue(ds[Len(ds)])

\* the float json.loads reads from a number: optional sign, then NaN,
\* Infinity, or integer digits, a point and one fraction digit
JsonParseFloat(tok) ==
    LET neg == tok # <<>> /\ Head(tok) = "-"
        body == IF neg THEN Tail(tok) ELSE tok
    IN  CASE body = <<"NaN">> -> NaN
          [] body = <<"Infinity">> -> IF neg THEN NegInf ELSE PosInf
          [] OTHER ->
                LET n == Len(body)
                    tenths == 10 * Number(SubSeq(body, 1, n - 2)) + DigitValue(body[n])
                IN  Fin(IF neg THEN 0 - tenths ELSE tenths)

MemberTok(e) ==
    [key |-> "\"" \o e.key \o "\"", threshold |-> FloatRepr(e.threshold), address |-> e.address]

RECURSIVE MemberToks(_)
MemberToks(d) ==
    IF d = <<>> THEN <<>>
    ELSE IF IsLive(Head(d)) THEN <<MemberTok(Head(d))>> \o MemberToks(Tail(d))
    ELSE MemberToks(Tail(d))

\* json.dump(data, f)
JsonDump(d) == <<OpenTok>> \o MemberToks(d) \o <<CloseTok>>

JsonKeys == {"\"" \o Str(n) \o "\"" : n \in ChatIds}

UnquoteKey(k) == CHOOSE s \in {Str(n) : n \in ChatIds} : "\"" \o s \o "\"" = k

\* does json.loads accept the text
JsonWellFormed(c) ==
    /\ Len(c) >= 2
    /\ c[1] = OpenTok
    /\ c[Len(c)] = CloseTok
    /\ \A i \in 2..(Len(c) - 1) : c[i].key \in JsonKeys

RECURSIVE LoadMembers(_)
LoadMembers(toks) ==
    IF toks = <<>> THEN <<>>
    ELSE <<[key |-> UnquoteKey(Head(toks).key),
            threshold |-> JsonParseFloat(Head(toks).threshold),
            address |-> Head(toks).address]>> \o LoadMembers(Tail(toks))

\* json.loads(content) of a well-formed text
JsonLoads(c) == LoadMembers(SubSeq(c, 2, Len(c) - 1))

NoFile == [exists |-> FALSE, content |-> <<>>]
FileOf(c) == [exists |-> TRUE, content |-> c]

\* f.read().strip()
RECURSIVE Strip(_)
Strip(c) ==
    IF c = <<>> THEN c
    ELSE IF Head(c) = Blank THEN Strip(Tail(c))
    ELSE IF c[Len(c)] = Blank THEN Strip(SubSeq(c, 1, Len(c) - 1))
    ELSE c

IsMember(tok) == tok.key \in JsonKeys

\* (mutant) a text that does not parse gives the members read before the error
load_user_data_lenient(f) ==
    IF ~f.exists THEN <<>>
    ELSE IF JsonWellFormed(Strip(f.content)) THEN JsonLoads(Strip(f.content))
    ELSE LoadMembers(SelectSeq(Strip(f.content), IsMember))

\* load_user_data()
load_user_data(f) ==
    IF ~f.exists THEN <<>>                       \* FileNotFoundError
    ELSE LET content == Strip(f.content)
         IN  IF content = <<>> THEN <<>>         \* empty content
             ELSE IF JsonWellFormed(content) THEN JsonLoads(content)
             ELSE <<>>                           \* json.JSONDecodeError

\* the texts a write of c that stops early can leave in the file
Prefixes(c) == {SubSeq(c, 1, n) : n \in 0..(Len(c) - 1)}

\* (mutant) the call returns without having written the file
save_user_data_skipped(d, f) == {[st |-> "ok", file |-> f]}

\* save_user_data(data): how the call can end and what the file then holds.
\* open(..., 'w') truncates the file before anything is written.
save_user_data(d, f) ==
    {[st |-> "ok", file |-> FileOf(JsonDump(d))]}
    \cup {[st |-> "OSError", file |-> f]}                                      \* open() raised
    \cup {[st |-> "OSError", file |-> FileOf(p)] : p \in Prefixes(JsonDump(d))} \* write raised
    \cup {[st |-> "killed", file |-> FileOf(p)] : p \in Prefixes(JsonDump(d))}  \* process died

----------------------------------------------------------------------------
(* check_and_notify and the sweep *)

NoEval == [chat |-> "", address |-> "", threshold |-> Fin(0), reading |-> None, out |-> ""]

\* (mutant) the alert also fires at a reading equal to the threshold
DecideAtOrBelow(health_factor, threshold) ==
    IF health_factor # None
    THEN IF FloatLt(threshold, health_factor) THEN "quiet" ELSE "alert"
    ELSE "unavailable"

\* the branch of check_and_notify taken for a reading:
\* "alert" and "unavailable" send a message, "quiet" sends nothing
Decide(health_factor, threshold) ==
    IF health_factor # None
    THEN IF FloatLt(health_factor, threshold) THEN "alert" ELSE "quiet"
    ELSE "unavailable"

\* (mutant) a chat that was already sent a message gets no further one
check_and_notify_once(chat_id, r) ==
    IF chat_id \notin Keys(user_data)
    THEN [NoEval EXCEPT !.chat = chat_id, !.out = "absent"]
    ELSE [chat |-> chat_id,
          address |-> GetItem(user_data, chat_id).address,
          threshold |-> GetItem(user_data, chat_id).threshold,
          reading |-> r,
          out |-> IF chat_id \in notified THEN "quiet"
                  ELSE Decide(r, GetItem(user_data, chat_id).threshold)]

\* check_and_notify(context, chat_id) up to its await, for the reading r
check_and_notify(chat_id, r) ==
    IF chat_id \notin Keys(user_data)
    THEN [NoEval EXCEPT !.chat = chat_id, !.out = "absent"]
    ELSE LET address == GetItem(user_data, chat_id).address
             threshold == GetItem(user_data, chat_id).threshold
             health_factor == r       \* check_health_factor(address)
         IN  [chat |-> chat_id, address |-> address, threshold |-> threshold,
              reading |-> health_factor, out |-> Decide(health_factor, threshold)]

Sends(ev) == ev.out \in {"alert", "unavailable"}

NoIter == [used |-> 0, pos |-> 0, len |-> 0]

\* the event loop is free: no coroutine is between two of its awaits
LoopFree == proc = "up" /\ spc # "iter"

\* periodic_check is over, it returned or raised: the job queue logs an
\* exception of the callback and keeps the job, which waits for its next run
SweepEnds(how) ==
    /\ spc' = "idle" /\ it' = NoIter /\ sev' = NoEval
    /\ evaluated' = {} /\ snapshot' = {} /\ touched' = FALSE
    /\ lastRun' = how

\* job_queue.run_repeating fires and periodic_check starts: iter(user_data)
Tick ==
    /\ LoopFree
    /\ spc = "idle"
    /\ spc' = "iter"
    /\ it' = [used |-> Used(user_data), pos |-> 0, len |-> Used(user_data)]
    /\ evaluated' = {}
    /\ snapshot' = Keys(user_data) /\ touched' = FALSE
    /\ lastRun' = ""
    /\ UNCHANGED <<proc, user_data, file, sev, hpc, hchat, hmsg, hev, notified,
                   failedSaves, saveLog, stopped>>

\* (mutant) the iterator passes over the slot next to the one it is at
AheadSkipsOne == {i \in Live(user_data) : i > it.pos + 1}

\* the slots the iterator has still to look at
Ahead == {i \in Live(user_data) : i > it.pos}

\* next(iterator) raises RuntimeError: the dict changed size, or a key turns
\* up after len(dict) keys were already handed out
SweepDictChanged ==
    /\ proc = "up" /\ spc = "iter"
    /\ \/ it.used # Used(user_data)
       \/ Ahead # {} /\ it.len = 0
    /\ SweepEnds("raised")
    /\ UNCHANGED <<proc, user_data, file, hpc, hchat, hmsg, hev, notified,
                   failedSaves, saveLog, stopped>>

\* next(iterator) raises StopIteration: periodic_check returns
SweepDone ==
    /\ proc = "up" /\ spc = "iter"
    /\ it.used = Used(user_data)
    /\ Ahead = {}
    /\ SweepEnds("returned")
    /\ UNCHANGED <<proc, user_data, file, hpc, hchat, hmsg, hev, notified,
                   failedSaves, saveLog, stopped>>

\* one turn of the loop: next(iterator) gives chat_id, check_and_notify runs
\* up to its send_message (if any)
SweepNext ==
    /\ proc = "up" /\ spc = "iter"
    /\ it.used = Used(user_data)
    /\ Ahead # {} /\ it.len > 0
    /\ LET i == CHOOSE j \in Ahead : \A k \in Ahead : j <= k
           chat_id == user_data[i].key
       IN  \E r \in Readings :
             LET ev == check_and_notify(chat_id, r)
             IN  /\ it' = [it EXCEPT !.pos = i, !.len = it.len - 1]
                 /\ sev' = ev
                 /\ evaluated' = evaluated \cup {chat_id}
                 /\ spc' = IF Sends(ev) THEN "sending" ELSE "iter"
    /\ UNCHANGED <<proc, user_data, file, hpc, hchat, hmsg, hev, snapshot, lastRun, notified,
                   failedSaves, saveLog, touched, stopped>>

\* context.bot.send_message returns: the loop goes on
SweepSendOk ==
    /\ proc = "up" /\ spc = "sending"
    /\ spc' = "iter"
    /\ sev' = NoEval
    /\ notified' = notified \cup {sev.chat}
    /\ UNCHANGED <<proc, user_data, file, it, hpc, hchat, hmsg, hev, evaluated, snapshot, lastRun,
                   failedSaves, saveLog, touched, stopped>>

\* (mutant) the exception of send_message ends the repeating job for good
SweepSendFailStopsJob ==
    /\ proc = "up" /\ spc = "sending"
    /\ spc' = "stopped" /\ it' = NoIter /\ sev' = NoEval
    /\ evaluated' = {} /\ snapshot' = {} /\ touched' = FALSE
    /\ lastRun' = "raised"
    /\ UNCHANGED <<proc, user_data, file, hpc, hchat, hmsg, hev, notified,
                   failedSaves, saveLog, stopped>>

\* context.bot.send_message raises (chat blocked the bot, network error):
\* nothing in check_and_notify or periodic_check catches it, the job run ends
SweepSendFail ==
    /\ proc = "up" /\ spc = "sending"
    /\ SweepEnds("raised")
    /\ UNCHANGED <<proc, user_data, file, hpc, hchat, hmsg, hev, notified,
                   failedSaves, saveLog, stopped>>

----------------------------------------------------------------------------
(* The update handlers *)

NoLog == [killed |-> FALSE, old |-> {}, new |-> {}]

\* the process is gone: what lived in memory is lost
Halted ==
    /\ proc' = "down"
    /\ user_data' = <<>>
    /\ spc' = "idle" /\ it' = NoIter /\ sev' = NoEval
    /\ hpc' = "idle" /\ hchat' = "" /\ hmsg' = "" /\ hev' = NoEval
    /\ evaluated' = {} /\ snapshot' = {} /\ touched' = FALSE
    /\ lastRun' = "" /\ notified' = {} /\ failedSaves' = 0

\* the handler returns (or an exception leaves it): no update is in flight
HandlerEnds == hpc' = "idle" /\ hchat' = "" /\ hmsg' = "" /\ hev' = NoEval

\* (mutant) the handler puts user_data back when save_user_data raises
SaveThenReplyRollsBack(chat_id, new, message) ==
    \E o \in save_user_data(new, file) :
        /\ file' = o.file
        /\ CASE o.st = "ok" ->
                  /\ user_data' = new
                  /\ hpc' = "reply" /\ hchat' = chat_id /\ hmsg' = message
                  /\ failedSaves' = 0
                  /\ touched' = (spc # "idle")
                  /\ stopped' = [stopped EXCEPT ![chat_id] =
                                     IF message = "stopped" THEN "saved" ELSE ""]
                  /\ UNCHANGED <<proc, spc, it, sev, hev, evaluated, snapshot,
                                 lastRun, notified, saveLog>>
             [] o.st = "OSError" ->
                  /\ failedSaves < MaxSaveFaults
                  /\ user_data' = user_data
                  /\ HandlerEnds
                  /\ failedSaves' = failedSaves + 1
                  /\ touched' = (spc # "idle")
                  /\ stopped' = [stopped EXCEPT ![chat_id] =
                                     IF message = "stopped" THEN "unsaved" ELSE ""]
                  /\ UNCHANGED <<proc, spc, it, sev, evaluated, snapshot,
                                 lastRun, notified, saveLog>>
             [] OTHER ->
                  /\ Halted
                  /\ stopped' = [stopped EXCEPT ![chat_id] =
                                     IF message = "stopped" THEN "unsaved" ELSE ""]
                  /\ saveLog' = [killed |-> TRUE,
                                 old |-> AsMapping(load_user_data(file)),
                                 new |-> AsMapping(new)]

\* save_user_data(user_data) with the mapping new, then
\* await update.message.reply_text(message)
SaveThenReply(chat_id, new, message) ==
    \E o \in save_user_data(new, file) :
        /\ file' = o.file
        /\ CASE o.st = "ok" ->
                  /\ user_data' = new
                  /\ hpc' = "reply" /\ hchat' = chat_id /\ hmsg' = message
                  /\ failedSaves' = 0
                  /\ touched' = (spc # "idle")
                  /\ stopped' = [stopped EXCEPT ![chat_id] =
                                     IF message = "stopped" THEN "saved" ELSE ""]
                  /\ UNCHANGED <<proc, spc, it, sev, hev, evaluated, snapshot,
                                 lastRun, notified, saveLog>>
             [] o.st = "OSError" ->
                  /\ failedSaves < MaxSaveFaults
                  /\ user_data' = new
                  /\ HandlerEnds
                  /\ failedSaves' = failedSaves + 1
                  /\ touched' = (spc # "idle")
                  /\ stopped' = [stopped EXCEPT ![chat_id] =
                                     IF message = "stopped" THEN "unsaved" ELSE ""]
                  /\ UNCHANGED <<proc, spc, it, sev, evaluated, snapshot,
                                 lastRun, notified, saveLog>>
             [] OTHER ->
                  /\ Halted
                  /\ stopped' = [stopped EXCEPT ![chat_id] =
                                     IF message = "stopped" THEN "unsaved" ELSE ""]
                  /\ saveLog' = [killed |-> TRUE,
                                 old |-> AsMapping(load_user_data(file)),
                                 new |-> AsMapping(new)]

\* a reply that needs no save
ReplyOnly(chat_id, message) ==
    /\ hpc' = "reply" /\ hchat' = chat_id /\ hmsg' = message
    /\ UNCHANGED <<proc, user_data, file, spc, it, sev, hev, evaluated, snapshot,
                   lastRun, notified, failedSaves, saveLog, touched, stopped>>

\* (mutant) an update sets the threshold and keeps the old address
StoreItemKeepsAddress(d, chat_id, threshold, address) ==
    IF chat_id \in Keys(d)
    THEN [d EXCEPT ![IndexOf(d, chat_id)].threshold = threshold]
    ELSE InsertItem(d, chat_id, threshold, address)

\* (mutant) an update sets the address and leaves the threshold for later
StoreItemKeepsThreshold(d, chat_id, threshold, address) ==
    IF chat_id \in Keys(d)
    THEN [d EXCEPT ![IndexOf(d, chat_id)].address = address]
    ELSE InsertItem(d, chat_id, threshold, address)

\* user_data[chat_id] = ... : both fields set on an existing key, a new item otherwise
StoreItem(d, chat_id, threshold, address) ==
    IF chat_id \in Keys(d)
    THEN [d EXCEPT ![IndexOf(d, chat_id)].threshold = threshold,
                   ![IndexOf(d, chat_id)].address = address]
    ELSE InsertItem(d, chat_id, threshold, address)

\* (mutant) /monitor without the w3.is_address check
monitorUnchecked(c, args) ==
    /\ LoopFree /\ hpc = "idle"
    /\ IF Len(args) # 2 THEN ReplyOnly(Str(c), "usage")
       ELSE LET chat_id == Str(c)
                threshold == ParseFloat(args[1])
                address == args[2]
            IN  IF threshold = ValueError THEN ReplyOnly(chat_id, "invalid_threshold")
                ELSE SaveThenReply(chat_id,
                                   StoreItem(user_data, chat_id, threshold, address),
                                   IF chat_id \in Keys(user_data) THEN "updated" ELSE "started")

\* /monitor up to its first await
monitor(c, args) ==
    /\ LoopFree /\ hpc = "idle"
    /\ IF Len(args) # 2 THEN ReplyOnly(Str(c), "usage")
       ELSE LET chat_id == Str(c)
                threshold == ParseFloat(args[1])
                address == args[2]
            IN  IF threshold = ValueError THEN ReplyOnly(chat_id, "invalid_threshold")
                ELSE IF ~IsAddress(address) THEN ReplyOnly(chat_id, "invalid_address")
                ELSE SaveThenReply(chat_id,
                                   StoreItem(user_data, chat_id, threshold, address),
                                   IF chat_id \in Keys(user_data) THEN "updated" ELSE "started")

\* (mutant) /stop deletes from a copy of user_data and saves the copy
stopKeepsMemory(c) ==
    /\ LoopFree /\ hpc = "idle"
    /\ LET chat_id == Str(c)
       IN  IF chat_id \in Keys(user_data)
           THEN /\ file' = FileOf(JsonDump(DelItem(user_data, chat_id)))
                /\ hpc' = "reply" /\ hchat' = chat_id /\ hmsg' = "stopped"
                /\ failedSaves' = 0
                /\ touched' = (spc # "idle")
                /\ stopped' = [stopped EXCEPT ![chat_id] = "saved"]
                /\ UNCHANGED <<proc, user_data, spc, it, sev, hev, evaluated, snapshot,
                               lastRun, notified, saveLog>>
           ELSE ReplyOnly(chat_id, "not_monitoring")

\* /stop up to its await
stop(c) ==
    /\ LoopFree /\ hpc = "idle"
    /\ LET chat_id == Str(c)
       IN  IF chat_id \in Keys(user_data)
           THEN SaveThenReply(chat_id, DelItem(user_data, chat_id), "stopped")
           ELSE ReplyOnly(chat_id, "not_monitoring")

\* /start up to its await
start(c) ==
    /\ LoopFree /\ hpc = "idle"
    /\ ReplyOnly(Str(c), "welcome")

\* (mutant) /check from a chat without a subscription creates an empty one
checkSubscribes(c) ==
    /\ LoopFree /\ hpc = "idle"
    /\ LET chat_id == Str(c)
       IN  IF chat_id \in Keys(user_data)
           THEN \E health_factor \in Readings :
                  ReplyOnly(chat_id, IF health_factor # None THEN "monitoring"
                                     ELSE "monitoring_unavailable")
           ELSE /\ user_data' = InsertItem(user_data, chat_id, Fin(0), "")
                /\ hpc' = "reply" /\ hchat' = chat_id /\ hmsg' = "not_monitoring_any"
                /\ UNCHANGED <<proc, file, spc, it, sev, hev, evaluated, snapshot,
                               lastRun, notified, failedSaves, saveLog, touched, stopped>>

\* /check up to its await
check(c) ==
    /\ LoopFree /\ hpc = "idle"
    /\ LET chat_id == Str(c)
       IN  IF chat_id \in Keys(user_data)
           THEN \E health_factor \in Readings :
                  ReplyOnly(chat_id, IF health_factor # None THEN "monitoring"
                                     ELSE "monitoring_unavailable")
           ELSE ReplyOnly(chat_id, "not_monitoring_any")

\* the texts a chat sends that are not commands
AddressTexts == {"0xA", "xyz"}

\* a text that is not a command, up to the await
handle_address(c, text) ==
    /\ LoopFree /\ hpc = "idle"
    /\ IF ~IsAddress(text) THEN ReplyOnly(Str(c), "invalid_address")
       ELSE \E health_factor \in Readings :
              ReplyOnly(Str(c), IF health_factor # None THEN "health_factor"
                                ELSE "unable_to_fetch")

\* (mutant) /monitor ends with its reply and leaves the evaluation to the sweep
HandlerReplyOkNoCheck ==
    /\ LoopFree /\ hpc = "reply"
    /\ HandlerEnds
    /\ UNCHANGED <<proc, user_data, file, spc, it, sev, evaluated, snapshot, lastRun, notified,
                   failedSaves, saveLog, touched, stopped>>

\* reply_text returns.  After /monitor stored a subscription, check_and_notify
\* runs for the chat up to its send_message; every other handler is finished.
HandlerReplyOk ==
    /\ LoopFree /\ hpc = "reply"
    /\ IF hmsg \in {"started", "updated"}
       THEN \E r \in Readings :
              LET ev == check_and_notify(hchat, r)
              IN  /\ hev' = ev
                  /\ hpc' = IF Sends(ev) THEN "notify" ELSE "checked"
                  /\ UNCHANGED <<hchat, hmsg, stopped>>
       ELSE HandlerEnds
    /\ UNCHANGED <<proc, user_data, file, spc, it, sev, evaluated, snapshot, lastRun, notified,
                   failedSaves, saveLog, touched, stopped>>

\* reply_text raises: the exception leaves the handler, check_and_notify is not reached
HandlerReplyFail ==
    /\ LoopFree /\ hpc = "reply"
    /\ HandlerEnds
    /\ UNCHANGED <<proc, user_data, file, spc, it, sev, evaluated, snapshot,
                   lastRun, notified, failedSaves, saveLog, touched, stopped>>

\* /monitor is over: check_and_notify sent nothing, or its send_message
\* returned or raised
HandlerReturn ==
    /\ LoopFree /\ hpc \in {"notify", "checked"}
    /\ HandlerEnds
    /\ UNCHANGED <<proc, user_data, file, spc, it, sev, evaluated, snapshot,
                   lastRun, notified, failedSaves, saveLog, touched, stopped>>

----------------------------------------------------------------------------
(* The process *)

\* the process dies outside save_user_data: the file is as it was
Kill ==
    /\ proc = "up"
    /\ Halted
    /\ saveLog' = NoLog
    /\ UNCHANGED <<file, stopped>>

\* the module is loaded again: user_data = load_user_data()
Restart ==
    /\ proc = "down"
    /\ proc' = "up"
    /\ user_data' = load_user_data(file)
    /\ saveLog' = NoLog
    /\ UNCHANGED <<file, spc, it, sev, hpc, hchat, hmsg, hev, evaluated, snapshot,
                   lastRun, notified, failedSaves, touched, stopped>>

\* USER_DATA_FILE when the bot is first started: missing, blank, or cut short
InitFiles == {NoFile, FileOf(<<Blank>>), FileOf(<<OpenTok>>)}

Init ==
    /\ proc = "up"
    /\ file \in InitFiles
    /\ user_data = load_user_data(file)
    /\ spc = "idle" /\ it = NoIter /\ sev = NoEval
    /\ hpc = "idle" /\ hchat = "" /\ hmsg = "" /\ hev = NoEval
    /\ evaluated = {} /\ snapshot = {} /\ touched = FALSE
    /\ stopped = [c \in {Str(n) : n \in ChatIds} |-> ""]
    /\ lastRun = "" /\ notified = {} /\ failedSaves = 0
    /\ saveLog = NoLog

Next ==
    \/ Tick
    \/ SweepNext
    \/ SweepSendOk
    \/ SweepSendFail
    \/ SweepDictChanged
    \/ SweepDone
    \/ \E in \in MonitorInputs : monitor(in[1], in[2])
    \/ \E c \in ChatIds : stop(c)
    \/ HandlerReplyOk
    \/ HandlerReplyFail
    \/ HandlerReturn
    \/ Kill
    \/ Restart

Spec == Init /\ [][Next]_vars

\* the bot with the commands that only read user_data as well
NextCommands ==
    \/ Next
    \/ \E c \in ChatIds : start(c)
    \/ \E c \in ChatIds : check(c)
    \/ \E c \in ChatIds, text \in AddressTexts : handle_address(c, text)

SpecCommands == Init /\ [][NextCommands]_vars

-----------------------------------------------------------------------------
(* save_user_data and load_user_data on their own: a mapping is saved, the   *)
(* file is loaded, what was loaded is saved again.                          *)

\* thresholds 0.1, 1.5, 2.0 and 10.5
StoreThresholds == {Fin(1), Fin(15), Fin(20), Fin(105)}

StoreItems ==
    [key : {Str(c) : c \in ChatIds}, threshold : StoreThresholds, address : {"0xA", "0xB"}]

\* the dicts with string chat ids as keys, in every insertion order
StoreMappings ==
    {<<>>} \cup {<<e>> : e \in StoreItems}
           \cup {<<p[1], p[2]>> : p \in {q \in StoreItems \X StoreItems : q[1].key # q[2].key}}

InitStore ==
    /\ proc = "up"
    /\ file = NoFile
    /\ user_data \in StoreMappings
    /\ spc = "idle" /\ it = NoIter /\ sev = NoEval
    /\ hpc = "idle" /\ hchat = "" /\ hmsg = "" /\ hev = NoEval
    /\ evaluated = {} /\ snapshot = {} /\ touched = FALSE
    /\ stopped = [c \in {Str(n) : n \in ChatIds} |-> ""]
    /\ lastRun = "" /\ notified = {} /\ failedSaves = 0
    /\ saveLog = NoLog

\* save_user_data(user_data) returns
SaveReturns ==
    /\ \E o \in save_user_data(user_data, file) : o.st = "ok" /\ file' = o.file
    /\ UNCHANGED <<proc, user_data, spc, it, sev, hpc, hchat, hmsg, hev, evaluated, snapshot,
                   lastRun, notified, failedSaves, saveLog, touched, stopped>>

\* user_data = load_user_data()
Load ==
    /\ user_data' = load_user_data(file)
    /\ UNCHANGED <<proc, file, spc, it, sev, hpc, hchat, hmsg, hev, evaluated, snapshot,
                   lastRun, notified, failedSaves, saveLog, touched, stopped>>

NextStore == SaveReturns \/ Load

SpecStore == InitStore /\ [][NextStore]_vars

----------------------------------------------------------------------------
(* Claims *)

\* the reading is a number strictly below the threshold
ReadingBelow(ev) ==
    /\ ev.reading.k = "fin"
    /\ \/ ev.threshold.k = "fin" /\ ev.reading.v < ev.threshold.v
       \/ ev.threshold = PosInf

\* the evaluation ev of a chat subscribed in d used the chat's threshold and
\* took the branch its reading calls for
EvaluatedRight(ev, d) ==
    /\ ev.chat \in Keys(d)
    /\ ev.threshold = GetItem(d, ev.chat).threshold
    /\ ev.out = "alert" <=> ReadingBelow(ev)
    /\ ev.out = "quiet" <=> (ev.reading.k = "fin" /\ ~ReadingBelow(ev))
    /\ ev.out = "unavailable" <=> ev.reading = None

\* C1: one run of check_and_notify for a subscribed chat, in the sweep or
\* right after /monitor, sends the below-threshold alert exactly when the
\* reading is a number strictly below the chat's threshold, sends nothing when
\* the reading is a number at or above it (equal included), and sends the
\* 'unable to fetch' message exactly when the reading is unavailable.
C1_EvaluationDecides ==
    [][/\ SweepNext => EvaluatedRight(sev', user_data)
       /\ (HandlerReplyOk /\ hmsg \in {"started", "updated"})
             => EvaluatedRight(hev', user_data)]_vars

\* a sweep alert is awaiting delivery while /monitor's evaluation of a reading
\* equal to the threshold sent nothing
C1_Witness ==
    /\ spc = "sending" /\ sev.out = "alert" /\ sev.reading.v < sev.threshold.v
    /\ hpc = "checked" /\ hev.out = "quiet" /\ hev.reading = hev.threshold

\* C2: a failed fetch or a failed send_message for one subscriber does not
\* end the sweep while other subscribers are still to be evaluated: a fetch
\* failure leaves periodic_check running, and when it stops awaiting a
\* send_message with subscribers not yet evaluated it goes on iterating.
C2_FailureDoesNotAbortSweep ==
    [][/\ (SweepNext /\ sev'.reading = None) => spc' # "idle"
       /\ (spc = "sending" /\ proc' = "up" /\ ~(Keys(user_data) \subseteq evaluated))
             => spc' # "idle"]_vars

\* C3: after the process died inside save_user_data, what load_user_data
\* reads is the complete mapping from before the call or the complete new one.
C3_CrashLeavesOldOrNew ==
    saveLog.killed => AsMapping(load_user_data(file)) \in {saveLog.old, saveLog.new}

\* a positive finite threshold and an address that passed w3.is_address
ValidSubscription(e) == e.threshold.k = "fin" /\ e.threshold.v > 0 /\ IsAddress(e.address)

\* C4: every subscription in user_data and in the file has a positive finite
\* threshold and an address that passed w3.is_address.
C4_OnlyValidSubscriptions ==
    /\ \A e \in AsMapping(user_data) : ValidSubscription(e)
    /\ \A e \in AsMapping(load_user_data(file)) : ValidSubscription(e)

\* C5: a subscription added or removed while the sweep awaits send_message
\* does not disrupt the iteration (no RuntimeError from the dict iterator), and
\* when the iteration ends every chat that was subscribed at sweep start and
\* still is has been evaluated.
C5_SweepIteratesSnapshot ==
    [][/\ ~SweepDictChanged
       /\ SweepDone => (snapshot \cap Keys(user_data)) \subseteq evaluated]_vars

\* C6: whenever the process is up and the latest save_user_data did not raise
\* (in particular while a 'Started', 'Updated' or 'Monitoring stopped'
\* acknowledgement is on its way), the file loads to the mapping in memory.
C6_DurableMatchesMemory ==
    (proc = "up" /\ failedSaves = 0)
        => AsMapping(load_user_data(file)) = AsMapping(user_data)

\* the acknowledgement of an update is on its way and the file holds both subscriptions
C6_Witness ==
    /\ hpc = "reply" /\ hmsg = "updated" /\ failedSaves = 0
    /\ Used(user_data) = 2
    /\ AsMapping(load_user_data(file)) = AsMapping(user_data)

\* C7: after /monitor with a well-formed request user_data holds exactly one
\* entry for the chat, with the threshold and the address of the request, and
\* the entries of the other chats are as before.
C7_UpsertReplaces ==
    [][\A in \in MonitorInputs :
          (/\ hpc = "idle" /\ proc' = "up"
           /\ hpc' = "reply" \/ failedSaves' # failedSaves
           /\ Len(in[2]) = 2 /\ ParseFloat(in[2][1]) # ValueError /\ IsAddress(in[2][2])
           /\ monitor(in[1], in[2]))
          => /\ {e \in AsMapping(user_data') : e.key = Str(in[1])}
                  = {[key |-> Str(in[1]), threshold |-> ParseFloat(in[2][1]),
                      address |-> in[2][2]]}
             /\ Cardinality({i \in Live(user_data') : user_data'[i].key = Str(in[1])}) = 1
             /\ {e \in AsMapping(user_data') : e.key # Str(in[1])}
                  = {e \in AsMapping(user_data) : e.key # Str(in[1])}]_vars

\* chat 1 replaced threshold 1.5 / address 0xA by 2.0 / 0xB next to chat 2's subscription
C7_Witness ==
    /\ hpc = "reply" /\ hmsg = "updated" /\ hchat = "1"
    /\ AsMapping(user_data) =
          {[key |-> "1", threshold |-> Fin(20), address |-> "0xB"],
           [key |-> "2", threshold |-> Fin(15), address |-> "0xA"]}

\* C8: /stop from a chat without a subscription replies 'not monitoring' and
\* leaves user_data and the file as they were; /stop from a subscribed chat
\* deletes that chat's entry only and, when save_user_data returns, the file
\* holds the new mapping and the reply is 'Monitoring stopped'.
C8_StopFrame ==
    [][\A c \in ChatIds :
          (/\ hpc = "idle" /\ proc' = "up"
           /\ hpc' = "reply" \/ failedSaves' # failedSaves
           /\ stop(c))
          => IF Str(c) \notin Keys(user_data)
             THEN /\ hmsg' = "not_monitoring"
                  /\ user_data' = user_data /\ file' = file
             ELSE /\ AsMapping(user_data') = AsMapping(user_data) \ {GetItem(user_data, Str(c))}
                  /\ hpc' = "reply" =>
                        /\ hmsg' = "stopped"
                        /\ AsMapping(load_user_data(file')) = AsMapping(user_data')]_vars

\* chat 1 was removed, chat 2's subscription is still there and in the file
C8_Witness ==
    /\ hpc = "reply" /\ hmsg = "stopped" /\ hchat = "1"
    /\ Keys(user_data) = {"2"}
    /\ Keys(load_user_data(file)) = {"2"}

\* C9: a sweep's evaluation of a chat that an earlier sweep already sent a
\* message to sends again: the alert whenever the reading is below the
\* threshold, the 'unable to fetch' message whenever the reading is unavailable.
C9_NoDeduplication ==
    (sev.out # "" /\ sev.chat \in notified)
        => /\ ReadingBelow(sev) => (sev.out = "alert" /\ spc = "sending")
           /\ sev.reading = None => (sev.out = "unavailable" /\ spc = "sending")

\* an alert is on its way to a chat that an earlier sweep already alerted
C9_Witness ==
    spc = "sending" /\ sev.out = "alert" /\ sev.chat \in notified

\* C10: whenever a run of periodic_check ends, by returning or by an exception
\* from send_message or from the dict iterator, the job is idle again, and
\* from then on until it fires the job can fire and start a new sweep.
C10_SchedulerKeepsRunning ==
    /\ [][(spc # "idle" /\ proc' = "up" /\ spc' \notin {"iter", "sending"})
             => (spc' = "idle" /\ lastRun' \in {"returned", "raised"})]_vars
    /\ [](lastRun # "" => ENABLED Tick)

\* the latest run ended with an exception, the job is idle and can fire
C10_Witness ==
    lastRun = "raised" /\ spc = "idle" /\ Keys(user_data) # {}

\* the text of f is not a JSON document: nothing but white space, or cut short
Unparsable(f) ==
    LET content == Strip(f.content)
    IN  content = <<>> \/ content[Len(content)] # CloseTok

C12_FailedSaveKeepsChange ==
    [][/\ (proc = "up" /\ failedSaves' > failedSaves)
             => /\ proc' = "up" /\ hpc' = "idle" /\ hmsg' = ""
                /\ \A in \in MonitorInputs :
                      (/\ Len(in[2]) = 2 /\ ParseFloat(in[2][1]) # ValueError
                       /\ IsAddress(in[2][2])
                       /\ monitor(in[1], in[2]))
                      => /\ Str(in[1]) \in Keys(user_data')
                         /\ GetItem(user_data', Str(in[1])) =
                               [key |-> Str(in[1]), threshold |-> ParseFloat(in[2][1]),
                                address |-> in[2][2]]
                /\ \A c \in ChatIds :
                      stop(c) => (Str(c) \in Keys(user_data) /\ Str(c) \notin Keys(user_data'))
       /\ (proc = "up" /\ proc' = "up" /\ failedSaves > 0 /\ failedSaves' = 0)
             => /\ file' = FileOf(JsonDump(user_data'))
                /\ AsMapping(load_user_data(file')) = AsMapping(user_data')
                /\ hpc' = "reply"]_vars

\* /stop removed chat 1 from user_data, save_user_data raised and the file
\* still holds both subscriptions; the process is up and no reply is pending
C12_Witness ==
    /\ proc = "up" /\ failedSaves = 1 /\ hpc = "idle"
    /\ Keys(user_data) = {"2"}
    /\ Keys(load_user_data(file)) = {"1", "2"}

\* the subscriptions a /monitor request can store: each pairs the threshold
\* and the address of one request
Upserts ==
    {[key |-> Str(in[1]), threshold |-> ParseFloat(in[2][1]), address |-> in[2][2]] :
        in \in {x \in MonitorInputs :
                   /\ Len(x[2]) = 2
                   /\ ParseFloat(x[2][1]) # ValueError
                   /\ IsAddress(x[2][2])}}

\* C13: however handlers and the sweep interleave, the threshold and the
\* address an evaluation uses are the pair one /monitor request stored, every
\* subscription in user_data and in a file that loads is such a pair, and a
\* save_user_data that returns leaves the file holding exactly the user_data
\* of that moment.
C13_NoTornMapping ==
    /\ [](/\ \A ev \in {sev, hev} :
               ev.out \notin {"", "absent"}
                  => [key |-> ev.chat, threshold |-> ev.threshold, address |-> ev.address]
                         \in Upserts
           /\ AsMapping(user_data) \subseteq Upserts
           /\ AsMapping(load_user_data(file)) \subseteq Upserts)
    /\ [][(proc' = "up" /\ file' # file) => file' = FileOf(JsonDump(user_data'))
                \/ failedSaves' > failedSaves]_vars

\* the sweep evaluated chat 1 with threshold 1.5 and address 0xA and awaits
\* send_message while /monitor has replaced both by 2.0 and 0xB
C13_Witness ==
    /\ spc = "sending" /\ sev.chat = "1"
    /\ sev.threshold = Fin(15) /\ sev.address = "0xA"
    /\ hpc = "reply" /\ hmsg = "updated" /\ hchat = "1"
    /\ GetItem(user_data, "1").threshold = Fin(20)
    /\ GetItem(user_data, "1").address = "0xB"
    /\ AsMapping(load_user_data(file)) = AsMapping(user_data)

\* the reply to a /monitor request that was turned down
Rejections == {"usage", "invalid_threshold", "invalid_address"}

\* C16: /monitor with a number of arguments other than two, a threshold that
\* float() does not parse, or an address that w3.is_address turns down leaves
\* user_data and the file as they are, calls neither save_user_data nor
\* check_and_notify, and sends the rejection reply and nothing after it.
C16_RejectedMonitorChangesNothing ==
    [][/\ \A in \in MonitorInputs :
             (/\ hpc = "idle" /\ proc' = "up"
              /\ \/ Len(in[2]) # 2
                 \/ ParseFloat(in[2][1]) = ValueError
                 \/ ~IsAddress(in[2][2])
              /\ monitor(in[1], in[2]))
             => /\ user_data' = user_data /\ file' = file
                /\ failedSaves' = failedSaves /\ saveLog' = saveLog
                /\ hpc' = "reply" /\ hmsg' \in Rejections
                /\ hev' = NoEval
       /\ (hpc = "reply" /\ hmsg \in Rejections /\ proc' = "up" /\ hpc' # "reply")
             => /\ hpc' = "idle" /\ hev' = NoEval
                /\ user_data' = user_data /\ file' = file]_vars

\* 'Invalid Ethereum address' is on its way to chat 1, whose subscription
\* with threshold 2.0 and address 0xB is in user_data and in the file
C16_Witness ==
    /\ hpc = "reply" /\ hmsg = "invalid_address" /\ hchat = "1"
    /\ hev = NoEval
    /\ AsMapping(user_data) = {[key |-> "1", threshold |-> Fin(20), address |-> "0xB"]}
    /\ AsMapping(load_user_data(file)) = AsMapping(user_data)

\* C18: /monitor with a well-formed request first stores the subscription in
\* user_data and writes the file, then replies 'Started' when the chat had no
\* subscription and 'Updated' when it had one, and only after the reply runs
\* check_and_notify once for the chat, with the stored threshold and address,
\* with no sweep needed in between.
C18_MonitorOrder ==
    /\ [][/\ (hpc = "idle" /\ hpc' = "reply" /\ hmsg' \in {"started", "updated"})
                => /\ hchat' \in Keys(user_data')
                   /\ file' = FileOf(JsonDump(user_data'))
                   /\ hmsg' = IF hchat' \in Keys(user_data) THEN "updated" ELSE "started"
                   /\ hev' = NoEval
          /\ (hpc = "reply" /\ hmsg \in {"started", "updated"} /\ proc' = "up")
                => /\ user_data' = user_data /\ file' = file
                   /\ (hpc' # "reply" /\ HandlerReplyOk)
                         => /\ hpc' \in {"notify", "checked"}
                            /\ hev'.chat = hchat
                            /\ hev'.threshold = GetItem(user_data, hchat).threshold
                            /\ hev'.address = GetItem(user_data, hchat).address
                            /\ hev'.out \in {"alert", "quiet", "unavailable"}
          /\ (hpc \in {"notify", "checked"} /\ hpc' # hpc) => (hpc' = "idle" /\ hev' = NoEval)]_vars
    /\ [](/\ (hpc = "reply" /\ hmsg \in {"started", "updated"})
               => /\ hev = NoEval
                  /\ hchat \in Keys(user_data)
                  /\ file = FileOf(JsonDump(user_data))
          /\ hev # NoEval => (hpc \in {"notify", "checked"} /\ hmsg \in {"started", "updated"}))

\* before any sweep has run, /monitor 2.0 0xB has updated chat 1, replied, and
\* its check_and_notify is sending the alert for a reading of 1.5
C18_Witness ==
    /\ lastRun = "" /\ spc = "idle" /\ notified = {}
    /\ hpc = "notify" /\ hmsg = "updated" /\ hchat = "1"
    /\ hev = [chat |-> "1", address |-> "0xB", threshold |-> Fin(20),
               reading |-> Fin(15), out |-> "alert"]

\* C15: for every mapping of string chat ids to a threshold and an address,
\* what load_user_data reads from the file save_user_data wrote is that
\* mapping, and saving what load_user_data returned leaves the file as it is
\* (a missing file becomes the empty document, which loads to the same).
C15_SaveLoadRoundTrip ==
    [][/\ SaveReturns => load_user_data(file') = user_data
       /\ Load => \A o \in save_user_data(user_data', file) :
                     o.st = "ok" => /\ load_user_data(o.file) = load_user_data(file)
                                    /\ file.exists => o.file = file]_vars

\* chat 2 with threshold 10.5 before chat 1 with threshold 0.1: the file
\* holds both and user_data is what the file loads to
C15_Witness ==
    /\ file.exists /\ Len(file.content) = 4
    /\ user_data = load_user_data(file)
    /\ user_data = <<[key |-> "2", threshold |-> Fin(105), address |-> "0xB"],
                     [key |-> "1", threshold |-> Fin(1), address |-> "0xA"]>>

\* C17: while the process is up, user_data and the file change only in a
\* /monitor with a well-formed request and in a /stop from a subscribed chat;
\* the sweep, /check, /start and a pasted address leave both as they are.
C17_OnlyMonitorAndStopMutate ==
    [][/\ (proc = "up" /\ proc' = "up" /\ (user_data' # user_data \/ file' # file))
             => \/ \E in \in MonitorInputs :
                     /\ Len(in[2]) = 2 /\ ParseFloat(in[2][1]) # ValueError
                     /\ IsAddress(in[2][2])
                     /\ monitor(in[1], in[2])
                \/ \E c \in ChatIds : Str(c) \in Keys(user_data) /\ stop(c)
       /\ (\/ Tick \/ SweepNext \/ SweepSendOk \/ SweepSendFail \/ SweepDictChanged \/ SweepDone
           \/ \E c \in ChatIds : start(c) \/ check(c)
           \/ \E c \in ChatIds, text \in AddressTexts : handle_address(c, text))
             => (user_data' = user_data /\ file' = file)]_vars

\* the reply of /check is on its way to chat 1 while the sweep awaits its
\* send_message to chat 2; both subscriptions are in user_data and in the file
C17_Witness ==
    /\ hpc = "reply" /\ hmsg = "monitoring" /\ hchat = "1"
    /\ spc = "sending" /\ sev.chat = "2"
    /\ Keys(user_data) = {"1", "2"}
    /\ file = FileOf(JsonDump(user_data))

\* C14: in a sweep during which no /monitor or /stop changed user_data and no
\* send_message raised, the dict iterator does not raise, each turn of the
\* loop evaluates a chat not yet evaluated in this sweep, with that chat's own
\* threshold and reading (an alert exactly when the reading is below the
\* threshold, nothing when it is at or above), the loop goes on while a
\* subscribed chat is not yet evaluated, and when periodic_check returns every
\* subscribed chat has been evaluated.
C14_SweepEvaluatesEachOnce ==
    /\ [][/\ (SweepNext /\ ~touched)
                => /\ sev'.chat \notin evaluated
                   /\ EvaluatedRight(sev', user_data)
                   /\ spc' = "sending" <=> sev'.out \in {"alert", "unavailable"}
          /\ (SweepDone /\ ~touched) => evaluated = Keys(user_data)
          /\ SweepDictChanged => touched]_vars
    /\ []((proc = "up" /\ spc = "iter" /\ ~touched /\ evaluated # Keys(user_data))
             => ENABLED SweepNext)

\* no /monitor or /stop ran during the sweep, which found chat 1 at its
\* threshold and sent nothing, and now awaits the alert it sends to chat 2
C14_Witness ==
    /\ spc = "sending" /\ ~touched /\ notified = {}
    /\ snapshot = {"1", "2"} /\ evaluated = {"1", "2"}
    /\ sev.chat = "2" /\ sev.out = "alert"
    /\ user_data[1].key = "1"

====
